---- MODULE Spec2Model ----
(***************************************************************************)
(* Request-resilience layer of the Gemini FastAPI toolkit:                 *)
(*   - RateLimiter.check_rate_limit      (app/core/rate_limiter.py)        *)
(*   - CacheService get/set/delete/clear (app/services/cache_service.py)   *)
(*   - GeminiClient._retry_with_backoff  (app/core/gemini_client.py)       *)
(*   - the cache keys of CacheService and TextService, TextService.generate *)
(*     and the HTTP responses of the text routes (app/services,             *)
(*     app/routers/text.py, app/main.py)                                    *)
(*                                                                         *)
(* Time is counted in ticks, TicksPerSecond ticks to the second, so that   *)
(* time.time() can return instants that are not whole seconds.  Delays of  *)
(* the retry executor are counted in the same ticks.                       *)
(***************************************************************************)
EXTENDS Integers, Sequences, FiniteSets, TLC

VARIABLES
    now,                    \* time.time(), in ticks
    RATE_LIMIT_ENABLED,     \* settings.RATE_LIMIT_ENABLED
    request_counts,         \* RateLimiter._request_counts: identifier -> (bucket -> count)
    rl_last,                \* what the last check_rate_limit call saw and gave its caller
    rl_probe,               \* the identifier whose calls rl_run follows
    rl_run,                 \* the calls of rl_probe in the bucket of its last call
    ENABLE_CACHE,           \* settings.ENABLE_CACHE
    use_redis,              \* CacheService._use_redis
    cache,                  \* CacheService._cache: key -> [value, expires_at]
    redis,                  \* the store behind CacheService._redis_client
    cache_last,             \* what the last cache operation saw and gave its caller
    last_set,               \* per key: the arguments and instant of the last set
    rt_pc,                  \* _retry_with_backoff: idle, attempting, sleeping, done
    rt_args,                \* its max_retries, initial_delay, max_delay
    rt_attempt,             \* attempt
    rt_delay,               \* delay
    rt_last_exception,      \* last_exception
    rt_outcomes,            \* the outcome of each invocation of func, in order
    rt_sleeps,              \* the duration of each asyncio.sleep, in order
    rt_errors,              \* the errors raised to the caller, in order
    rt_result,              \* what the caller got
    key_probe,              \* the operation arguments whose keys key_ref follows
    key_ref,                \* the first key derived for key_probe and the order used
    key_last,               \* the last key derivation: arguments as supplied, and the key
    tx_last,                \* the last request a text route served and what it did
    http_last,              \* the HTTP response the client got for it
    tasks,                  \* the concurrent requests: each task's position and data
    admitted,               \* per (identifier, bucket): the checks admitted so far
    cl_method,              \* the GeminiClient method that runs the retry executor
    cl_result               \* what the caller of that method got

limiter_vars == <<RATE_LIMIT_ENABLED, request_counts, rl_last, rl_probe, rl_run>>

cache_vars == <<ENABLE_CACHE, use_redis, cache, redis, cache_last, last_set>>

retry_vars == <<rt_pc, rt_args, rt_attempt, rt_delay, rt_last_exception,
                rt_outcomes, rt_sleeps, rt_errors, rt_result>>

key_vars == <<key_probe, key_ref, key_last>>

text_vars == <<tx_last, http_last>>

task_vars == <<tasks, admitted>>

client_vars == <<cl_method, cl_result>>

vars == <<now, limiter_vars, cache_vars, retry_vars, key_vars, text_vars, task_vars,
          client_vars>>

(***************************************************************************)
(* Bounds of the model.                                                    *)
(***************************************************************************)
TicksPerSecond == 2

\* Largest per_minute argument a caller passes.
MaxLimit == 1

\* settings.RATE_LIMIT_PER_MINUTE (60 unless configured; any value > 0).
RATE_LIMIT_PER_MINUTE == 2

\* settings.CACHE_TTL_SECONDS (3600 unless configured; any value > 0).
CACHE_TTL_SECONDS == 2

\* Largest ttl argument in seconds, and the last second of the cache's clock.
MaxTtl == 1
MaxCacheSeconds == 2

\* Largest max_retries a caller passes.
MaxRetries == 3

(***************************************************************************)
(* Constants of the program.                                               *)
(***************************************************************************)
WindowSeconds == 60
RetentionMinutes == 60

\* Optional[int]: None is the empty tuple, the integer v is <<v>>.
None == << >>

Some(v) == <<v>>

Min(a, b) == IF a <= b THEN a ELSE b

EmptyMap == [x \in {} |-> 0]

WindowTicks == WindowSeconds * TicksPerSecond

(***************************************************************************)
(* The clock.  Every operation of the limiter and of the cache takes place *)
(* at an instant no earlier than the one before it.  The instants at which *)
(* the limiter is exercised: the first                                     *)
(* and the last tick of a minute, in the first two minutes and in the      *)
(* minute one retention horizon after the first.                           *)
(***************************************************************************)
LimiterMinutes == {0, 1, RetentionMinutes}

LimiterInstants ==
    {m * WindowTicks + o : m \in LimiterMinutes, o \in {0, WindowTicks - 1}}

\* The operation takes place at the instant t, which time.time() returns;
\* the clock never runs backwards.
At(t) ==
    /\ t >= now
    /\ now' = t

(***************************************************************************)
(* Rate limiter.                                                           *)
(***************************************************************************)
NoKey == "NoKey"

ApiKeyHeaders == {NoKey, "", "k1"}

RemoteAddresses == {"10.0.0.1"}

Requests == [api_key : ApiKeyHeaders, addr : RemoteAddresses]

\* request.headers.get("X-API-Key") is None (NoKey) or a string; "if api_key"
\* is false for None and for the empty string.
TruthyStr(s) == s \notin {NoKey, ""}

\* Truth value of an Optional[int]: None and 0 are false.
TruthyInt(opt) == opt # None /\ opt[1] # 0

\* An identifier resolution that ignores the X-API-Key header.
_get_remote_address(request) == request.addr

_get_identifier(request) ==
    IF TruthyStr(request.api_key)
    THEN "api_key:" \o request.api_key
    ELSE request.addr

Identifiers == {_get_identifier(request) : request \in Requests}

PerMinuteArgs == {None} \cup {Some(v) : v \in 0 .. MaxLimit}

\* per_minute or self.settings.RATE_LIMIT_PER_MINUTE
minute_limit(per_minute) ==
    IF TruthyInt(per_minute) THEN per_minute[1] ELSE RATE_LIMIT_PER_MINUTE

\* int(current_time / 60)
minute_window(current_time) == current_time \div WindowTicks

\* A purge that zeroes the counts of old buckets and keeps their entries.
ResetOldEntries(counts, current_time) ==
    [k \in DOMAIN counts |->
        IF current_time - k * WindowTicks < RetentionMinutes * WindowTicks
        THEN counts[k] ELSE 0]

\* {k: v for k, v in counts.items() if (current_time / 60) - k < 60}
CleanOldEntries(counts, current_time) ==
    LET keep == {k \in DOMAIN counts :
                    current_time - k * WindowTicks < RetentionMinutes * WindowTicks}
    IN  [k \in keep |-> counts[k]]

\* int(60 - (current_time % 60))
retry_after_seconds(current_time) ==
    (WindowTicks - (current_time % WindowTicks)) \div TicksPerSecond

CountsOf(identifier) ==
    IF identifier \in DOMAIN request_counts THEN request_counts[identifier] ELSE EmptyMap

\* A read of the count that takes every bucket for a new one.
CountInNewBucket(counts, bucket) == 0

CountIn(counts, bucket) == IF bucket \in DOMAIN counts THEN counts[bucket] ELSE 0

\* A limiter that ignores the enabled flag.
LimiterNeverBypassed == FALSE

\* "if not self.settings.RATE_LIMIT_ENABLED: return"
LimiterBypassed == ~RATE_LIMIT_ENABLED

\* History of the calls of the identifier rl_probe: n calls were made in
\* bucket `bucket`, each asking for the limit `limit`.  Once two calls in
\* the bucket asked for different limits the history of that bucket is
\* dropped (limit -1, n 0).  n stops at two more than the limit.
NoRun == [bucket |-> -1, limit |-> -1, n |-> 0]

NextRun(identifier, bucket, asked) ==
    IF identifier # rl_probe THEN rl_run
    ELSE IF rl_run.bucket # bucket THEN [bucket |-> bucket, limit |-> asked, n |-> 1]
    ELSE IF rl_run.limit # asked THEN [bucket |-> bucket, limit |-> -1, n |-> 0]
    ELSE [bucket |-> bucket, limit |-> asked, n |-> Min(rl_run.n + 1, asked + 2)]

WithEntry(f, k, v) == [x \in DOMAIN f \cup {k} |-> IF x = k THEN v ELSE f[x]]

check_rate_limit(request, per_minute, t) ==
    LET identifier   == _get_identifier(request)
        current_time == t
        limit        == minute_limit(per_minute)
        window       == minute_window(current_time)
        counts       == CleanOldEntries(CountsOf(identifier), current_time)
        minute_count == CountIn(counts, window)
        asked        == IF per_minute = None THEN RATE_LIMIT_PER_MINUTE ELSE per_minute[1]
        seen         == [id |-> identifier, request |-> request,
                         per_minute |-> per_minute,
                         prior |-> CountIn(CountsOf(identifier), window)]
    IN  /\ At(t)
        /\ rl_run' = NextRun(identifier, window, asked)
        /\ IF LimiterBypassed
           THEN /\ rl_last' = seen @@ [outcome |-> "admit", retry_after |-> 0]
                /\ UNCHANGED request_counts
           ELSE IF minute_count >= limit
           THEN /\ rl_last' = seen @@ [outcome |-> "RateLimitError",
                                       retry_after |-> retry_after_seconds(current_time)]
                /\ request_counts' = WithEntry(request_counts, identifier, counts)
           ELSE /\ rl_last' = seen @@ [outcome |-> "admit", retry_after |-> 0]
                /\ request_counts' =
                       WithEntry(request_counts, identifier,
                                 WithEntry(counts, window, minute_count + 1))
        /\ UNCHANGED <<RATE_LIMIT_ENABLED, rl_probe, cache_vars, retry_vars, key_vars, text_vars>>

\* No check has been made yet.
NoCheck ==
    [id |-> "", request |-> [api_key |-> NoKey, addr |-> ""], per_minute |-> None,
     prior |-> 0, outcome |-> "none", retry_after |-> 0]

LimiterInit ==
    /\ RATE_LIMIT_ENABLED \in BOOLEAN
    /\ request_counts = EmptyMap
    /\ rl_last = NoCheck
    /\ rl_probe \in Identifiers
    /\ rl_run = NoRun

\* A limiter that is constructed and never called.
LimiterIdle ==
    /\ RATE_LIMIT_ENABLED = TRUE
    /\ request_counts = EmptyMap
    /\ rl_last = NoCheck
    /\ rl_probe = CHOOSE identifier \in Identifiers : TRUE
    /\ rl_run = NoRun

LimiterNext ==
    \E t \in LimiterInstants, request \in Requests, per_minute \in PerMinuteArgs :
        check_rate_limit(request, per_minute, t) /\ UNCHANGED <<task_vars, client_vars>>

\* A caller that passes the same per_minute argument on every check.
UniformLimiterNext ==
    \E t \in LimiterInstants, request \in Requests, per_minute \in PerMinuteArgs :
        /\ rl_last = NoCheck \/ per_minute = rl_last.per_minute
        /\ check_rate_limit(request, per_minute, t)
        /\ UNCHANGED <<task_vars, client_vars>>

(***************************************************************************)
(* Cache service.                                                          *)
(***************************************************************************)
CacheKeys == {"k1", "k2"}

\* settings.CACHE_MAX_SIZE (1000 unless configured; any value > 0): one less
\* than the number of keys, so that a set can leave the cache over its size.
CACHE_MAX_SIZE == Cardinality(CacheKeys) - 1

CacheValues == {"v1", "v2"}

TtlArgs == {None} \cup {Some(v) : v \in 0 .. MaxTtl}

\* The cache is exercised at whole seconds.
CacheInstants == {sec * TicksPerSecond : sec \in 0 .. MaxCacheSeconds}

\* The networked store fails (a connection error, a timeout) or answers;
\* the in-process mapping is given the same two outcomes.
BackingOutcomes == {"ok", "error"}

\* json.dumps(value) and json.loads(data): the stored string is not the value.
json_dumps(value) == <<"json", value>>

json_loads(data) == data[2]

NoEntry == << >>

Without(f, keys) == [x \in DOMAIN f \ keys |-> f[x]]

\* "if not self.settings.ENABLE_CACHE: return"
CacheBypassed == ~ENABLE_CACHE

\* "if self._use_redis and self._redis_client"
UsesRedis == use_redis

\* ttl or self.settings.CACHE_TTL_SECONDS
effective_ttl(ttl) == IF TruthyInt(ttl) THEN ttl[1] ELSE CACHE_TTL_SECONDS

\* An expiry that forgets the ttl.
expires_at_without_ttl(current_time, ttl) == current_time

\* time.time() + ttl
expires_at(current_time, ttl) == current_time + ttl * TicksPerSecond

\* A freshness test that still serves an entry at its expiry instant.
IsLiveAtExpiry(entry, current_time) == current_time <= entry.expires_at

\* time.time() < entry["expires_at"]
IsLive(entry, current_time) == current_time < entry.expires_at

\* The redis server drops a key once its time to live has run out.
RedisGet(key, current_time) ==
    IF key \in DOMAIN redis /\ current_time < redis[key].expires_at
    THEN <<redis[key].data>>
    ELSE NoEntry

\* CacheService._cleanup_expired
_cleanup_expired(store, current_time) ==
    LET expired_keys == {key \in DOMAIN store : store[key].expires_at < current_time}
    IN  Without(store, expired_keys)

\* A handler that lets the store's error through.
BackingErrorRaised(op) == "raised"

\* "except Exception as e: logger.warning(...)": what the caller gets.
AfterBackingError(op) == IF op = "get" THEN "miss" ELSE "returned"

\* History kept for a set: a set with an explicit positive ttl that
\* reached the in-process mapping is remembered with its instant, ttl and
\* value; any other set of the key forgets it.  removed: a delete or clear
\* came after it.
NoSet == [at |-> 0, ttl |-> 0, value |-> "", removed |-> FALSE]

SetRecord(value, ttl_arg, backing) ==
    IF ~CacheBypassed /\ ~UsesRedis /\ backing = "ok" /\ ttl_arg # None /\ ttl_arg[1] > 0
    THEN [at |-> now', ttl |-> ttl_arg[1], value |-> value, removed |-> FALSE]
    ELSE NoSet

MarkRemoved(keys) ==
    [k \in DOMAIN last_set |->
        IF k \in keys /\ last_set[k] # NoSet
        THEN [last_set[k] EXCEPT !.removed = TRUE]
        ELSE last_set[k]]

\* What the operation was, what it found under its key in the in-process
\* mapping (the expiry, -1 for no entry), which stores it called.
Seen(op, key, backing, touched) ==
    [op |-> op, key |-> key, backing |-> backing, touched |-> touched,
     prior |-> IF key \in DOMAIN cache THEN cache[key].expires_at ELSE -1]

\* CacheService.get
cache_get(key, backing, t) ==
    /\ At(t)
    /\ IF CacheBypassed
       THEN /\ cache_last' = Seen("get", key, "ok", {}) @@ [outcome |-> "miss", value |-> ""]
            /\ UNCHANGED cache
       ELSE IF UsesRedis
       THEN /\ UNCHANGED cache
            /\ IF backing = "error"
               THEN cache_last' = Seen("get", key, backing, {"redis"})
                                    @@ [outcome |-> AfterBackingError("get"), value |-> ""]
               ELSE LET value == RedisGet(key, t)
                    IN  cache_last' = Seen("get", key, backing, {"redis"}) @@
                            (IF value # NoEntry
                             THEN [outcome |-> "hit", value |-> json_loads(value[1])]
                             ELSE [outcome |-> "miss", value |-> ""])
       ELSE IF backing = "error"
       THEN /\ cache_last' = Seen("get", key, backing, {"memory"})
                               @@ [outcome |-> AfterBackingError("get"), value |-> ""]
            /\ UNCHANGED cache
       ELSE IF key \in DOMAIN cache
       THEN IF IsLive(cache[key], t)
            THEN /\ cache_last' = Seen("get", key, backing, {"memory"})
                                    @@ [outcome |-> "hit", value |-> cache[key].value]
                 /\ UNCHANGED cache
            ELSE /\ cache_last' = Seen("get", key, backing, {"memory"})
                                    @@ [outcome |-> "miss", value |-> ""]
                 /\ cache' = Without(cache, {key})
       ELSE /\ cache_last' = Seen("get", key, backing, {"memory"})
                               @@ [outcome |-> "miss", value |-> ""]
            /\ UNCHANGED cache
    /\ UNCHANGED <<limiter_vars, retry_vars, key_vars, text_vars, task_vars, client_vars, ENABLE_CACHE, use_redis, redis, last_set>>

\* CacheService.set
cache_set(key, value, ttl_arg, backing, t) ==
    LET ttl == effective_ttl(ttl_arg)
        stored == WithEntry(cache, key,
                            [value |-> value, expires_at |-> expires_at(t, ttl)])
    IN  /\ At(t)
        /\ last_set' = WithEntry(last_set, key, SetRecord(value, ttl_arg, backing))
        /\ IF CacheBypassed
           THEN /\ cache_last' = Seen("set", key, "ok", {})
                                   @@ [outcome |-> "returned", value |-> ""]
                /\ UNCHANGED <<cache, redis>>
           ELSE IF backing = "error"
           THEN /\ cache_last' = Seen("set", key, backing,
                                      IF UsesRedis THEN {"redis"} ELSE {"memory"})
                                   @@ [outcome |-> AfterBackingError("set"), value |-> ""]
                /\ UNCHANGED <<cache, redis>>
           ELSE IF UsesRedis
           THEN /\ cache_last' = Seen("set", key, backing, {"redis"})
                                   @@ [outcome |-> "returned", value |-> ""]
                /\ redis' = WithEntry(redis, key,
                                      [data |-> json_dumps(value),
                                       expires_at |-> expires_at(t, ttl)])
                /\ UNCHANGED cache
           ELSE /\ cache_last' = Seen("set", key, backing, {"memory"})
                                   @@ [outcome |-> "returned", value |-> ""]
                /\ cache' = IF Cardinality(DOMAIN stored) > CACHE_MAX_SIZE
                            THEN _cleanup_expired(stored, t)
                            ELSE stored
                /\ UNCHANGED redis
        /\ UNCHANGED <<limiter_vars, retry_vars, key_vars, text_vars, task_vars, client_vars, ENABLE_CACHE, use_redis>>

\* CacheService.delete
cache_delete(key, backing, t) ==
    /\ At(t)
    /\ last_set' = MarkRemoved({key})
    /\ IF backing = "error"
       THEN /\ cache_last' = Seen("delete", key, backing,
                                  IF UsesRedis THEN {"redis"} ELSE {"memory"})
                               @@ [outcome |-> AfterBackingError("delete"), value |-> ""]
            /\ UNCHANGED <<cache, redis>>
       ELSE IF UsesRedis
       THEN /\ cache_last' = Seen("delete", key, backing, {"redis"})
                               @@ [outcome |-> "returned", value |-> ""]
            /\ redis' = Without(redis, {key})
            /\ UNCHANGED cache
       ELSE /\ cache_last' = Seen("delete", key, backing, {"memory"})
                               @@ [outcome |-> "returned", value |-> ""]
            /\ cache' = Without(cache, {key})
            /\ UNCHANGED redis
    /\ UNCHANGED <<limiter_vars, retry_vars, key_vars, text_vars, task_vars, client_vars, ENABLE_CACHE, use_redis>>

\* CacheService.clear
cache_clear(backing, t) ==
    /\ At(t)
    /\ last_set' = MarkRemoved(DOMAIN last_set)
    /\ IF backing = "error"
       THEN /\ cache_last' = Seen("clear", "", backing,
                                  IF UsesRedis THEN {"redis"} ELSE {"memory"})
                               @@ [outcome |-> AfterBackingError("clear"), value |-> ""]
            /\ UNCHANGED <<cache, redis>>
       ELSE IF UsesRedis
       THEN /\ cache_last' = Seen("clear", "", backing, {"redis"})
                               @@ [outcome |-> "returned", value |-> ""]
            /\ redis' = EmptyMap
            /\ UNCHANGED cache
       ELSE /\ cache_last' = Seen("clear", "", backing, {"memory"})
                               @@ [outcome |-> "returned", value |-> ""]
            /\ cache' = EmptyMap
            /\ UNCHANGED redis
    /\ UNCHANGED <<limiter_vars, retry_vars, key_vars, text_vars, task_vars, client_vars, ENABLE_CACHE, use_redis>>

\* CacheService.__init__: redis is used only with the cache enabled, a
\* REDIS_URL configured and the redis package importable.
CacheInit ==
    /\ ENABLE_CACHE \in BOOLEAN
    /\ use_redis \in {u \in BOOLEAN : u => ENABLE_CACHE}
    /\ cache = EmptyMap
    /\ redis = EmptyMap
    /\ cache_last = [op |-> "none", key |-> "", backing |-> "ok", touched |-> {},
                     prior |-> -1, outcome |-> "none", value |-> ""]
    /\ last_set = EmptyMap

CacheIdle ==
    /\ ENABLE_CACHE = TRUE
    /\ use_redis = FALSE
    /\ cache = EmptyMap
    /\ redis = EmptyMap
    /\ cache_last = [op |-> "none", key |-> "", backing |-> "ok", touched |-> {},
                     prior |-> -1, outcome |-> "none", value |-> ""]
    /\ last_set = EmptyMap

CacheNext ==
    \E t \in CacheInstants :
        \/ \E key \in CacheKeys, backing \in BackingOutcomes : cache_get(key, backing, t)
        \/ \E key \in CacheKeys, value \in CacheValues, ttl \in TtlArgs,
              backing \in BackingOutcomes : cache_set(key, value, ttl, backing, t)
        \/ \E key \in CacheKeys, backing \in BackingOutcomes : cache_delete(key, backing, t)
        \/ \E backing \in BackingOutcomes : cache_clear(backing, t)

(***************************************************************************)
(* Retry executor.  One invocation of _retry_with_backoff, cut at its      *)
(* suspension points: the await of func and the await of asyncio.sleep.    *)
(***************************************************************************)
MaxRetriesArgs == 0 .. MaxRetries

\* initial_delay: half a second, the default 1.0, and 3.0 seconds.
InitialDelays == {TicksPerSecond \div 2, TicksPerSecond, 3 * TicksPerSecond}

\* max_delay: 2.0 seconds and the default 60.0.
MaxDelays == {2 * TicksPerSecond, 60 * TicksPerSecond}

\* What one invocation of func does: it returns, or raises
\* google_exceptions.ResourceExhausted, another GoogleAPIError, the
\* ModelNotFoundError of _get_model, or any other Exception.
AttemptOutcomes ==
    {"success", "ResourceExhausted", "GoogleAPIError", "ModelNotFoundError", "Exception"}

\* An exception func raised: its kind and the invocation that raised it.
NoException == [kind |-> "none", invocation |-> 0]

\* How a call ended: the value returned, or the error raised with the
\* invocation whose exception it wraps ("from e", 0 for none) and the place
\* of the raise ("loop" or "after_loop").
NoResult ==
    [kind |-> "none", status_code |-> 0, retry_after |-> 0, value |-> 0,
     cause |-> 0, site |-> "none"]

\* int(delay)
int_seconds(delay) == delay \div TicksPerSecond

\* A test of the last attempt that is never true.
IsLastAttemptNever(attempt, max_retries) == FALSE

\* An off-by-one test of the last attempt.
IsLastAttemptEarly(attempt, max_retries) == attempt + 1 = max_retries - 1

\* attempt == max_retries - 1
IsLastAttempt(attempt, max_retries) == attempt = max_retries - 1

\* RateLimitError(..., retry_after=int(delay)) from e; status 429
\* (exceptions.py)
RateLimitError(delay, e) ==
    [kind |-> "RateLimitError", status_code |-> 429,
     retry_after |-> int_seconds(delay), value |-> 0,
     cause |-> e.invocation, site |-> "loop"]

\* GeminiAPIError(f"...: {str(e)}", status_code=...) from e
GeminiAPIError(status_code, e, site) ==
    [kind |-> "GeminiAPIError", status_code |-> status_code,
     retry_after |-> 0, value |-> 0, cause |-> e.invocation, site |-> site]

\* An exit that hands the operation's own exception to the caller.
RaiseLastException(last_exception) ==
    [kind |-> last_exception.kind, status_code |-> 0, retry_after |-> 0, value |-> 0,
     cause |-> last_exception.invocation, site |-> "after_loop"]

\* After the loop: "if last_exception: raise GeminiAPIError(..., 500) from
\* last_exception", else "raise GeminiAPIError(..., 500)".
AfterLoop(last_exception) == GeminiAPIError(500, last_exception, "after_loop")

\* A handler that keeps the first unexpected exception it saw.
RecordedFirst(last_exception, e) ==
    IF last_exception = NoException THEN e ELSE last_exception

\* last_exception = e
Recorded(last_exception, e) == e

\* A loop that never advances to the next attempt.
SameAttempt(attempt) == attempt

\* for attempt in range(max_retries): the next value of attempt
NextAttempt(attempt) == attempt + 1


\* min(delay * 2, max_delay)
next_delay(delay, max_delay) == Min(delay * 2, max_delay)

Raise(error) ==
    /\ rt_pc' = "done"
    /\ rt_result' = error
    /\ rt_errors' = Append(rt_errors, error.kind)

\* The call, up to the first await of func.
retry_call(max_retries, initial_delay, max_delay) ==
    /\ rt_pc \in {"idle", "done"}
    /\ rt_args' = [max_retries |-> max_retries, initial_delay |-> initial_delay,
                   max_delay |-> max_delay]
    /\ rt_attempt' = 0
    /\ rt_delay' = initial_delay
    /\ rt_last_exception' = NoException
    /\ rt_outcomes' = << >>
    /\ rt_sleeps' = << >>
    /\ IF max_retries > 0
       THEN /\ rt_pc' = "attempting"
            /\ rt_errors' = << >>
            /\ rt_result' = NoResult
       ELSE /\ rt_pc' = "done"
            /\ rt_result' = AfterLoop(NoException)
            /\ rt_errors' = <<AfterLoop(NoException).kind>>
    /\ UNCHANGED <<now, limiter_vars, cache_vars, key_vars, text_vars, task_vars>>

\* func completes, with a result or an exception, and the handler runs up
\* to the return, the raise or the await of asyncio.sleep.
retry_attempt(outcome) ==
    LET e == [kind |-> outcome, invocation |-> Len(rt_outcomes) + 1]
        last == IsLastAttempt(rt_attempt, rt_args.max_retries)
    IN
    /\ rt_pc = "attempting"
    /\ rt_outcomes' = Append(rt_outcomes, outcome)
    /\ IF outcome = "success"
       THEN /\ rt_pc' = "done"
            /\ rt_result' = [NoResult EXCEPT !.kind = "returned",
                                             !.value = Len(rt_outcomes) + 1]
            /\ UNCHANGED <<rt_errors, rt_last_exception>>
       ELSE IF outcome = "ResourceExhausted"
       THEN /\ UNCHANGED rt_last_exception
            /\ IF last
               THEN Raise(RateLimitError(rt_delay, e))
               ELSE rt_pc' = "sleeping" /\ UNCHANGED <<rt_errors, rt_result>>
       ELSE IF outcome = "GoogleAPIError"
       THEN /\ UNCHANGED rt_last_exception
            /\ IF last
               THEN Raise(GeminiAPIError(503, e, "loop"))
               ELSE rt_pc' = "sleeping" /\ UNCHANGED <<rt_errors, rt_result>>
       ELSE /\ rt_last_exception' = Recorded(rt_last_exception, e)
            /\ IF last
               THEN Raise(AfterLoop(Recorded(rt_last_exception, e)))
               ELSE rt_pc' = "sleeping" /\ UNCHANGED <<rt_errors, rt_result>>
    /\ UNCHANGED <<now, limiter_vars, cache_vars, key_vars, text_vars, task_vars, rt_args, rt_attempt, rt_delay, rt_sleeps>>

\* asyncio.sleep(delay) completes: the delay doubles and the loop goes on.
retry_wake ==
    /\ rt_pc = "sleeping"
    /\ rt_sleeps' = Append(rt_sleeps, rt_delay)
    /\ rt_delay' = next_delay(rt_delay, rt_args.max_delay)
    /\ rt_attempt' = NextAttempt(rt_attempt)
    /\ IF NextAttempt(rt_attempt) < rt_args.max_retries
       THEN rt_pc' = "attempting" /\ UNCHANGED <<rt_errors, rt_result>>
       ELSE Raise(AfterLoop(rt_last_exception))
    /\ UNCHANGED <<now, limiter_vars, cache_vars, key_vars, text_vars, task_vars, rt_args, rt_last_exception, rt_outcomes>>

RetryInit ==
    /\ rt_pc = "idle"
    /\ rt_args = [max_retries |-> 0, initial_delay |-> 0, max_delay |-> 0]
    /\ rt_attempt = 0
    /\ rt_delay = 0
    /\ rt_last_exception = NoException
    /\ rt_outcomes = << >>
    /\ rt_sleeps = << >>
    /\ rt_errors = << >>
    /\ rt_result = NoResult

RetryNext ==
    \/ \E max_retries \in MaxRetriesArgs, initial_delay \in InitialDelays,
          max_delay \in MaxDelays :
          retry_call(max_retries, initial_delay, max_delay) /\ UNCHANGED client_vars
    \/ \E outcome \in AttemptOutcomes : retry_attempt(outcome) /\ UNCHANGED client_vars
    \/ retry_wake /\ UNCHANGED client_vars

(***************************************************************************)
(* Cache keys.  A caller supplies named parameters in some order; Python   *)
(* keeps that order in the kwargs dict, here a sequence of <<name, value>> *)
(* pairs with distinct names.  Values are written as Python prints them.   *)
(***************************************************************************)
KwargNames == {"temperature", "max_tokens", "model"}

KwargValues ==
    [temperature |-> {"0.7", "0.9"}, max_tokens |-> {"None"}, model |-> {"None"}]

Prompts == {"p1"}

\* The names in the order of their code points, the order in which
\* sorted() and json.dumps(sort_keys=True) put them.
NameOrder ==
    <<"max_tokens", "model", "prompt", "stop_sequences", "temperature", "top_k", "top_p">>

Names(items) == {items[i][1] : i \in DOMAIN items}

ValueOf(items, name) == items[CHOOSE i \in DOMAIN items : items[i][1] = name][2]

\* A canonical form that keeps the order in which the items were supplied.
unsorted_items(items) == items

\* sorted(key_data.items()); the order of the keys under sort_keys=True
sorted_items(items) ==
    LET present == SelectSeq(NameOrder, LAMBDA name : name \in Names(items))
    IN  [i \in DOMAIN present |-> <<present[i], ValueOf(items, present[i])>>]

\* str() of a list of (name, value) pairs
RECURSIVE str_items(_)
str_items(items) ==
    IF items = << >> THEN ""
    ELSE "(" \o items[1][1] \o ", " \o items[1][2] \o ")" \o str_items(Tail(items))

\* the elements of a JSON array
RECURSIVE str_list(_)
str_list(values) ==
    IF values = << >> THEN "" ELSE values[1] \o ", " \o str_list(Tail(values))

\* hashlib.md5(key_str.encode()).hexdigest(); different strings are taken
\* to have different digests.
md5(key_str) == "md5:" \o key_str

\* TextService._get_cache_key(prompt, **kwargs)
_get_cache_key(prompt, kwargs) ==
    LET key_data == <<<<"prompt", prompt>>>> \o kwargs
        key_str  == "[" \o str_items(sorted_items(key_data)) \o "]"
    IN  md5(key_str)

\* CacheService._generate_key(*args, **kwargs)
_generate_key(args, kwargs) ==
    LET key_str == "{args: [" \o str_list(args) \o "], kwargs: {"
                       \o str_items(sorted_items(kwargs)) \o "}}"
    IN  md5(key_str)

\* The orders in which a caller can supply some of the named parameters.
KwargOrders ==
    {order \in UNION {[1 .. n -> KwargNames] : n \in 0 .. Cardinality(KwargNames)} :
        \A i, j \in DOMAIN order : i # j => order[i] # order[j]}

\* A value for every named parameter.
KwargChoices ==
    {values \in [KwargNames -> UNION {KwargValues[name] : name \in KwargNames}] :
        \A name \in KwargNames : values[name] \in KwargValues[name]}

Supplied(order, values) == [i \in DOMAIN order |-> <<order[i], values[order[i]]>>]

\* The arguments of a key derivation whatever their order: the function,
\* the prompt and the set of (name, value) pairs.
KeyArguments(fn, prompt, kwargs) ==
    [fn |-> fn, prompt |-> prompt, named |-> {kwargs[i] : i \in DOMAIN kwargs}]

KeyFunctions == {"_get_cache_key", "_generate_key"}

NoKeyRef == [order |-> << >>, key |-> ""]

NoDerivation == [arguments |-> KeyArguments("", "", << >>), order |-> << >>, key |-> ""]

\* One call of a key function with the named parameters supplied in the
\* order `order`.
derive_key(fn, prompt, order, values) ==
    LET kwargs    == Supplied(order, values)
        arguments == KeyArguments(fn, prompt, kwargs)
        key       == IF fn = "_get_cache_key"
                     THEN _get_cache_key(prompt, kwargs)
                     ELSE _generate_key(<<prompt>>, kwargs)
    IN  /\ key_last' = [arguments |-> arguments, order |-> order, key |-> key]
        /\ key_ref' = IF arguments = key_probe /\ key_ref = NoKeyRef
                      THEN [order |-> order, key |-> key]
                      ELSE key_ref
        /\ UNCHANGED <<now, limiter_vars, cache_vars, retry_vars, text_vars, task_vars, client_vars, key_probe>>

KeysInit ==
    /\ key_probe \in {KeyArguments(fn, prompt, Supplied(order, values)) :
                         fn \in KeyFunctions, prompt \in Prompts,
                         order \in KwargOrders, values \in KwargChoices}
    /\ key_ref = NoKeyRef
    /\ key_last = NoDerivation

\* No key has been derived.
KeysIdle ==
    /\ key_probe = KeyArguments("_get_cache_key", "p1", << >>)
    /\ key_ref = NoKeyRef
    /\ key_last = NoDerivation

KeysNext ==
    \E fn \in KeyFunctions, prompt \in Prompts, order \in KwargOrders,
       values \in KwargChoices : derive_key(fn, prompt, order, values)

(***************************************************************************)
(* The text routes: POST /api/v1/text/generate (the router's               *)
(* generate_text and TextService.generate, over the in-memory cache), POST *)
(* /api/v1/text/chat, and the application's handler for a RateLimitError   *)
(* raised outside a route.                                                 *)
(***************************************************************************)
\* TextGenerationRequest: the fields a client sets, the others at a fixed
\* value.
TextRequests ==
    [prompt : Prompts, temperature : {"0.7", "0.9"}, max_tokens : {"None"},
     top_p : {"0.95", "0.5"}, top_k : {"40"}, stop_sequences : {"None"},
     model : {"None"}]

NoRequest ==
    [prompt |-> "", temperature |-> "", max_tokens |-> "", top_p |-> "",
     top_k |-> "", stop_sequences |-> "", model |-> ""]

\* self._get_cache_key(request.prompt, temperature=..., max_tokens=...,
\* model=...)
RequestCacheKey(request) ==
    _get_cache_key(request.prompt,
                   <<<<"temperature", request.temperature>>,
                     <<"max_tokens", request.max_tokens>>,
                     <<"model", request.model>>>>)

\* The arguments of self.client.generate_text(...), which decide the text
\* the upstream model is asked for.
Forwarded(request) ==
    <<<<"prompt", request.prompt>>,
      <<"temperature", request.temperature>>,
      <<"max_tokens", request.max_tokens>>,
      <<"top_p", request.top_p>>,
      <<"top_k", request.top_k>>,
      <<"stop_sequences", request.stop_sequences>>,
      <<"model_name", request.model>>>>

\* The response built from the upstream result for these arguments.
ResponseFor(request) == "text for " \o str_items(Forwarded(request))

NoValue == "None"

\* A lookup that finds nothing.
MemoryGetNothing(store, key, current_time) == NoValue

\* CacheService.get, in-memory store: the value returned and the store left
MemoryGet(store, key, current_time) ==
    IF CacheBypassed THEN NoValue
    ELSE IF key \in DOMAIN store /\ IsLive(store[key], current_time)
    THEN store[key].value
    ELSE NoValue

AfterMemoryGet(store, key, current_time) ==
    IF ~CacheBypassed /\ key \in DOMAIN store /\ ~IsLive(store[key], current_time)
    THEN Without(store, {key})
    ELSE store

\* A set that adds the value to the one already stored under the key.
AfterMemorySetAppended(store, key, value, current_time) ==
    LET merged == IF key \in DOMAIN store THEN store[key].value \o value ELSE value
    IN  WithEntry(store, key,
                  [value |-> merged,
                   expires_at |-> expires_at(current_time, effective_ttl(None))])

\* CacheService.set(key, value) with the default ttl, in-memory store
AfterMemorySet(store, key, value, current_time) ==
    LET stored == WithEntry(store, key,
                            [value |-> value,
                             expires_at |-> expires_at(current_time, effective_ttl(None))])
    IN  IF CacheBypassed THEN store
        ELSE IF Cardinality(DOMAIN stored) > CACHE_MAX_SIZE
        THEN _cleanup_expired(stored, current_time)
        ELSE stored

\* _retry_with_backoff as every caller in the repository uses it: with its
\* default arguments.
DefaultMaxRetries == 3

RECURSIVE DefaultDelayAt(_)
DefaultDelayAt(attempt) ==
    IF attempt = 0 THEN TicksPerSecond
    ELSE next_delay(DefaultDelayAt(attempt - 1), 60 * TicksPerSecond)

\* What a call of _retry_with_backoff with the default arguments can give.
RetryResults ==
    LET e(kind) == [kind |-> kind, invocation |-> DefaultMaxRetries]
    IN  {[NoResult EXCEPT !.kind = "returned", !.value = 1],
         RateLimitError(DefaultDelayAt(DefaultMaxRetries - 1), e("ResourceExhausted")),
         GeminiAPIError(503, e("GoogleAPIError"), "loop"),
         AfterLoop(e("Exception"))}

\* A handler that takes every exception, asyncio.CancelledError included.
IsBaseException(kind) == TRUE

\* "except Exception" takes every exception but those that derive from
\* BaseException alone, of which a task meets asyncio.CancelledError.
IsException(kind) == kind # "CancelledError"

\* "except (RateLimitError, ModelNotFoundError, AuthenticationError): raise"
Reraised == {"RateLimitError", "ModelNotFoundError", "AuthenticationError"}

\* GeminiClient.generate_text around the retried call: a RateLimitError, a
\* ModelNotFoundError or an AuthenticationError is re-raised as it is, any
\* other Exception becomes a GeminiAPIError 500, anything else goes through.
generate_text_outcome(result) ==
    IF result.kind = "returned" \/ result.kind \in Reraised THEN result
    ELSE IF IsException(result.kind)
    THEN [result EXCEPT !.kind = "GeminiAPIError", !.status_code = 500,
                        !.site = "generate_text"]
    ELSE result

UpstreamResults == {generate_text_outcome(result) : result \in RetryResults}

\* The RateLimitError check_rate_limit raises at the instant current_time.
LimiterRejection(current_time) ==
    [NoResult EXCEPT !.kind = "RateLimitError", !.status_code = 429,
                     !.retry_after = retry_after_seconds(current_time),
                     !.site = "check_rate_limit"]

\* The response to a request a route answers with its result.
HttpOk == [status |-> 200, retry_after |-> None]

\* raise HTTPException(status_code=..., detail=...): the status and the
\* detail, no header.
HTTPException(status_code) == [status |-> status_code, retry_after |-> None]

\* main.py rate_limit_error_handler: "if exc.retry_after:" sets Retry-After
rate_limit_error_response(exc) ==
    [status |-> exc.status_code,
     retry_after |-> IF exc.retry_after # 0 THEN Some(exc.retry_after) ELSE None]

\* The except clauses of the router's generate_text
generate_text_response(error) ==
    IF error.kind = "RateLimitError" THEN HTTPException(429)
    ELSE IF error.kind = "GeminiAPIError" THEN HTTPException(error.status_code)
    ELSE HTTPException(500)

NoServed == [request |-> NoRequest, key |-> "", outcome |-> "none", response |-> NoValue]

NoResponse ==
    [route |-> "none", error |-> "none", error_retry_after |-> 0,
     status |-> 0, retry_after |-> None]

Answered(route, error, response) ==
    [route |-> route, error |-> error.kind, error_retry_after |-> error.retry_after,
     status |-> response.status, retry_after |-> response.retry_after]

\* POST /api/v1/text/generate at the instant t; upstream is what
\* GeminiClient.generate_text gives if it is called.
text_generate(request, upstream, t) ==
    LET cache_key == RequestCacheKey(request)
        cached    == MemoryGet(cache, cache_key, t)
        looked    == AfterMemoryGet(cache, cache_key, t)
        response  == ResponseFor(request)
        served    == [request |-> request, key |-> cache_key]
    IN  /\ At(t)
        /\ IF cached # NoValue
           THEN /\ tx_last' = served @@ [outcome |-> "cached", response |-> cached]
                /\ http_last' = Answered("text.generate", NoResult, HttpOk)
                /\ cache' = looked
           ELSE IF upstream.kind = "returned"
           THEN /\ tx_last' = served @@ [outcome |-> "generated", response |-> response]
                /\ http_last' = Answered("text.generate", NoResult, HttpOk)
                /\ cache' = AfterMemorySet(looked, cache_key, response, t)
           ELSE /\ tx_last' = served @@ [outcome |-> "error", response |-> NoValue]
                /\ http_last' = Answered("text.generate", upstream,
                                         generate_text_response(upstream))
                /\ cache' = looked
        /\ UNCHANGED <<limiter_vars, retry_vars, key_vars, task_vars, client_vars,
                       ENABLE_CACHE, use_redis, redis, cache_last, last_set>>

\* POST /api/v1/text/chat: TextService.chat calls generate_text, the
\* router turns every exception into HTTPException(500).
text_chat(upstream) ==
    /\ http_last' = IF upstream.kind = "returned"
                    THEN Answered("text.chat", NoResult, HttpOk)
                    ELSE Answered("text.chat", upstream, HTTPException(500))
    /\ UNCHANGED <<now, limiter_vars, cache_vars, retry_vars, key_vars, task_vars, client_vars, tx_last>>

\* A RateLimitError that check_rate_limit raises at the instant t outside
\* the try blocks of the routes reaches rate_limit_error_handler.
rate_limited(t) ==
    LET exc == LimiterRejection(t)
    IN  /\ At(t)
        /\ http_last' = Answered("rate_limit_error_handler", exc,
                                 rate_limit_error_response(exc))
        /\ UNCHANGED <<limiter_vars, cache_vars, retry_vars, key_vars, task_vars, client_vars, tx_last>>

TextInit ==
    /\ tx_last = NoServed
    /\ http_last = NoResponse

TextNext ==
    \/ \E request \in TextRequests, upstream \in UpstreamResults, t \in CacheInstants :
          text_generate(request, upstream, t)
    \/ \E upstream \in UpstreamResults : text_chat(upstream)
    \/ \E t \in CacheInstants \cup {WindowTicks - 1} : rate_limited(t)

(***************************************************************************)
(* Concurrent requests.  Each request is a task of the event loop; a task  *)
(* runs until it awaits the upstream call or the backoff sleep, so each    *)
(* action below is the code between two such awaits.  A request has its    *)
(* rate limit checked, then runs TextService.generate over the in-memory   *)
(* cache with the client's default retry arguments.  A task can be         *)
(* cancelled while it is suspended.                                        *)
(***************************************************************************)
Tasks == {1, 2}

\* The requests the tasks send: one cache key, two values of top_p.
TaskRequests == {request \in TextRequests : request.temperature = "0.7"}

\* The clients of the tasks: one sends no API key, one sends the key k1.
TaskClients == {http_request \in Requests : http_request.api_key \in {NoKey, "k1"}}

\* The first instant and the instant an entry stored at the first instant
\* expires.
TaskInstants == {0, CACHE_TTL_SECONDS * TicksPerSecond}

NoTask ==
    [pc |-> "idle", request |-> NoRequest, key |-> "", attempt |-> 0,
     calls |-> 0, outcome |-> "none", error |-> "none", status_code |-> 0,
     response |-> NoValue, swept |-> FALSE, cancelled |-> FALSE]

\* The task's request is over, with a response or with the error raised.
Served(task, outcome, response) ==
    [task EXCEPT !.pc = "done", !.outcome = outcome, !.response = response]

Failed(task, error) ==
    [task EXCEPT !.pc = "done", !.outcome = "error", !.error = error.kind,
                 !.status_code = error.status_code]

\* An exception that no handler takes, raised at the await it interrupts.
Propagated(kind) == [NoResult EXCEPT !.kind = kind, !.site = "await"]

\* The handlers of _retry_with_backoff for an exception of the kind `kind`
\* raised by the await of func, then those of generate_text.
AfterFailure(task, kind) ==
    LET last == IsLastAttempt(task.attempt, DefaultMaxRetries)
        e    == [kind |-> kind, invocation |-> task.calls]
        retried == [task EXCEPT !.pc = "sleeping"]
    IN  IF kind = "ResourceExhausted"
        THEN IF last
             THEN Failed(task, generate_text_outcome(
                                   RateLimitError(DefaultDelayAt(task.attempt), e)))
             ELSE retried
        ELSE IF kind = "GoogleAPIError"
        THEN IF last
             THEN Failed(task, generate_text_outcome(GeminiAPIError(503, e, "loop")))
             ELSE retried
        ELSE IF IsException(kind)
        THEN IF last
             THEN Failed(task, generate_text_outcome(AfterLoop(e)))
             ELSE retried
        ELSE Failed(task, generate_text_outcome(Propagated(kind)))

Admitted(identifier, bucket) ==
    IF <<identifier, bucket>> \in DOMAIN admitted
    THEN admitted[<<identifier, bucket>>] ELSE 0

\* The request arrives at the instant t: check_rate_limit(request), which
\* has no await.
task_check(task, http_request, t) ==
    /\ tasks[task].pc \in {"idle", "done"}
    /\ check_rate_limit(http_request, None, t)
    /\ tasks' = [tasks EXCEPT ![task] =
                    IF rl_last'.outcome = "admit"
                    THEN [NoTask EXCEPT !.pc = "admitted"]
                    ELSE Failed(NoTask, LimiterRejection(t))]
    /\ admitted' =
           IF rl_last'.outcome = "admit"
           THEN LET bucket == <<rl_last'.id, minute_window(t)>>
                IN  WithEntry(admitted, bucket,
                              Admitted(rl_last'.id, minute_window(t)) + 1)
           ELSE admitted
    /\ UNCHANGED client_vars

\* TextService.generate up to the await of the upstream call: the key, the
\* lookup, and on a hit the return of the cached response.  swept: the
\* lookup found an expired entry under the key and removed it.
task_lookup(task, request, t) ==
    LET cache_key == RequestCacheKey(request)
        cached    == MemoryGet(cache, cache_key, t)
        looked    == AfterMemoryGet(cache, cache_key, t)
        started   == [tasks[task] EXCEPT !.request = request, !.key = cache_key,
                                         !.swept = (looked # cache)]
    IN  /\ tasks[task].pc = "admitted"
        /\ At(t)
        /\ cache' = looked
        /\ tasks' = [tasks EXCEPT ![task] =
                        IF cached # NoValue
                        THEN Served(started, "cached", cached)
                        ELSE [started EXCEPT !.pc = "upstream", !.calls = 1]]
        /\ UNCHANGED <<limiter_vars, retry_vars, key_vars, text_vars, client_vars,
                       admitted, ENABLE_CACHE, use_redis, redis, cache_last, last_set>>

\* The upstream call completes at the instant t: with a result, which is
\* made into the response and stored, or with an exception.
task_attempt(task, outcome, t) ==
    LET response == ResponseFor(tasks[task].request)
    IN  /\ tasks[task].pc = "upstream"
        /\ At(t)
        /\ IF outcome = "success"
           THEN /\ cache' = AfterMemorySet(cache, tasks[task].key, response, t)
                /\ tasks' = [tasks EXCEPT ![task] = Served(@, "generated", response)]
           ELSE /\ tasks' = [tasks EXCEPT ![task] = AfterFailure(@, outcome)]
                /\ UNCHANGED cache
        /\ UNCHANGED <<limiter_vars, retry_vars, key_vars, text_vars, client_vars,
                       admitted, ENABLE_CACHE, use_redis, redis, cache_last, last_set>>

\* asyncio.sleep(delay) completes and the loop makes its next attempt.
task_wake(task) ==
    /\ tasks[task].pc = "sleeping"
    /\ tasks' = [tasks EXCEPT ![task] =
                    LET attempt == NextAttempt(tasks[task].attempt)
                    IN  IF attempt < DefaultMaxRetries
                        THEN [tasks[task] EXCEPT !.pc = "upstream",
                                                 !.attempt = attempt,
                                                 !.calls = tasks[task].calls + 1]
                        ELSE Failed(tasks[task],
                                    generate_text_outcome(AfterLoop(NoException)))]
    /\ UNCHANGED <<now, limiter_vars, cache_vars, retry_vars, key_vars, text_vars,
                   client_vars, admitted>>

\* The task is cancelled while it is suspended: asyncio.CancelledError is
\* raised by the await of func, inside the try of _retry_with_backoff, or by
\* the await of asyncio.sleep, outside it and inside the try of
\* generate_text.
task_cancel(task) ==
    /\ tasks[task].pc \in {"upstream", "sleeping"}
    /\ tasks' = [tasks EXCEPT ![task] =
                    LET interrupted == [tasks[task] EXCEPT !.cancelled = TRUE]
                    IN  IF interrupted.pc = "upstream"
                        THEN AfterFailure(interrupted, "CancelledError")
                        ELSE Failed(interrupted,
                                    generate_text_outcome(Propagated("CancelledError")))]
    /\ UNCHANGED <<now, limiter_vars, cache_vars, retry_vars, key_vars, text_vars,
                   client_vars, admitted>>

TasksInit ==
    /\ tasks = [task \in Tasks |-> NoTask]
    /\ admitted = EmptyMap

TasksNext ==
    \E task \in Tasks :
        \/ \E http_request \in TaskClients, t \in TaskInstants :
              task_check(task, http_request, t)
        \/ \E request \in TaskRequests, t \in TaskInstants : task_lookup(task, request, t)
        \/ \E outcome \in AttemptOutcomes, t \in TaskInstants :
              task_attempt(task, outcome, t)
        \/ task_wake(task)
        \/ task_cancel(task)

(***************************************************************************)
(* The client methods that run their operation under the retry executor,  *)
(* with its default arguments, inside a try of their own.                  *)
(***************************************************************************)
ClientMethods == {"generate_text", "analyze_image", "analyze_video", "process_multimodal"}

\* analyze_image, analyze_video, process_multimodal: "except Exception as
\* e: raise GeminiAPIError(..., status_code=500) from e"
wrapped_outcome(method, result) ==
    IF result.kind = "returned" THEN result
    ELSE IF IsException(result.kind)
    THEN [result EXCEPT !.kind = "GeminiAPIError", !.status_code = 500,
                        !.retry_after = 0, !.site = method]
    ELSE result

\* What the caller of the method gets when the executor gives `result`.
method_outcome(method, result) ==
    IF method = "generate_text"
    THEN generate_text_outcome(result)
    ELSE wrapped_outcome(method, result)

\* The method is called and calls self._retry_with_backoff(func).
client_call(method) ==
    /\ cl_method' = method
    /\ cl_result' = NoResult
    /\ retry_call(DefaultMaxRetries, TicksPerSecond, 60 * TicksPerSecond)

\* The executor has returned or raised; the method returns its result or
\* its except clauses take the error.
client_return ==
    /\ cl_method \in ClientMethods
    /\ rt_pc = "done"
    /\ cl_result = NoResult
    /\ cl_result' = method_outcome(cl_method, rt_result)
    /\ UNCHANGED <<now, limiter_vars, cache_vars, retry_vars, key_vars, text_vars,
                   task_vars, cl_method>>

ClientInit ==
    /\ cl_method = "none"
    /\ cl_result = NoResult

ClientNext ==
    \/ \E method \in ClientMethods : client_call(method)
    \/ \E outcome \in AttemptOutcomes : retry_attempt(outcome) /\ UNCHANGED client_vars
    \/ retry_wake /\ UNCHANGED client_vars
    \/ client_return

(***************************************************************************)
(* Specifications: each component alone, the other two constructed and     *)
(* left idle, and the three together.                                      *)
(***************************************************************************)
Init ==
    /\ now = 0
    /\ LimiterInit
    /\ CacheInit
    /\ RetryInit
    /\ KeysInit
    /\ TextInit
    /\ TasksInit
    /\ ClientInit

InitLimiter ==
    /\ now = 0
    /\ LimiterInit
    /\ CacheIdle
    /\ RetryInit
    /\ KeysIdle
    /\ TextInit
    /\ TasksInit
    /\ ClientInit

InitCache ==
    /\ now = 0
    /\ LimiterIdle
    /\ CacheInit
    /\ RetryInit
    /\ KeysIdle
    /\ TextInit
    /\ TasksInit
    /\ ClientInit

InitRetry ==
    /\ now = 0
    /\ LimiterIdle
    /\ CacheIdle
    /\ RetryInit
    /\ KeysIdle
    /\ TextInit
    /\ TasksInit
    /\ ClientInit

InitKeys ==
    /\ now = 0
    /\ LimiterIdle
    /\ CacheIdle
    /\ RetryInit
    /\ KeysInit
    /\ TextInit
    /\ TasksInit
    /\ ClientInit

\* The text routes over an enabled in-memory cache.
InitText ==
    /\ now = 0
    /\ LimiterIdle
    /\ CacheIdle
    /\ RetryInit
    /\ KeysIdle
    /\ TextInit
    /\ TasksInit
    /\ ClientInit

\* Concurrent requests over an enabled limiter and an enabled in-memory
\* cache.
InitTasks ==
    /\ now = 0
    /\ LimiterIdle
    /\ CacheIdle
    /\ RetryInit
    /\ KeysIdle
    /\ TextInit
    /\ TasksInit
    /\ ClientInit

Next ==
    \/ LimiterNext
    \/ CacheNext
    \/ RetryNext
    \/ KeysNext
    \/ TextNext
    \/ TasksNext
    \/ ClientNext

Spec == Init /\ [][Next]_vars

SpecLimiter == InitLimiter /\ [][LimiterNext]_vars

SpecLimiterUniform == InitLimiter /\ [][UniformLimiterNext]_vars

SpecCache == InitCache /\ [][CacheNext]_vars

SpecRetry == InitRetry /\ [][RetryNext]_vars

SpecKeys == InitKeys /\ [][KeysNext]_vars

SpecText == InitText /\ [][TextNext]_vars

SpecTasks == InitTasks /\ [][TasksNext]_vars

SpecClient == InitRetry /\ [][ClientNext]_vars

(***************************************************************************)
(* Claims about the rate limiter.  Every state of SpecLimiter after the    *)
(* first is the state right after the check rl_last describes, which took  *)
(* place at the instant `now`.                                             *)
(***************************************************************************)
LastCallMade == rl_last.outcome # "none"

\* The limit the caller of the last check asked for: the per_minute
\* argument when one was passed, the configured limit otherwise.
AskedLimit == IF rl_last.per_minute = None THEN RATE_LIMIT_PER_MINUTE ELSE rl_last.per_minute[1]

\* The count now stored for the identifier and bucket of the last check.
CountAfterLastCall ==
    CountIn(CountsOf(rl_last.id), minute_window(now))

\* C1: with rate limiting enabled, of the calls made for one identifier
\* in one minute bucket with the limit L >= 1, the first L are admitted
\* and the (L+1)-th is rejected with 0 < retry_after <= 60.
C1_LimitPlusOneRejected ==
    (RATE_LIMIT_ENABLED /\ LastCallMade /\ rl_last.id = rl_probe /\ rl_run.limit >= 1) =>
        /\ rl_run.n <= rl_run.limit => rl_last.outcome = "admit"
        /\ rl_run.n = rl_run.limit + 1 =>
              /\ rl_last.outcome = "RateLimitError"
              /\ 0 < rl_last.retry_after
              /\ rl_last.retry_after <= WindowSeconds

\* C7: an enabled check is rejected exactly when the count stored for
\* the current bucket is >= the limit the caller asked for; admission adds
\* exactly one to that count and rejection leaves it as it was.
C7_RejectedIffCountReachedLimit ==
    (RATE_LIMIT_ENABLED /\ LastCallMade) =>
        /\ rl_last.outcome = "RateLimitError" <=> rl_last.prior >= AskedLimit
        /\ rl_last.outcome = "admit" => CountAfterLastCall = rl_last.prior + 1
        /\ rl_last.outcome = "RateLimitError" => CountAfterLastCall = rl_last.prior

\* C8: with rate limiting disabled every check admits and the counter
\* state stays as it was constructed: no identifier, no bucket.
C8_DisabledAdmitsWithoutState ==
    ~RATE_LIMIT_ENABLED =>
        /\ rl_last.outcome \in {"none", "admit"}
        /\ request_counts = EmptyMap

\* Disabled, and one identifier has made more calls in one bucket than
\* the limit each of them asked for.
C8_Witness ==
    /\ ~RATE_LIMIT_ENABLED
    /\ rl_last.outcome = "admit"
    /\ rl_last.id = rl_probe
    /\ rl_run.limit >= 1
    /\ rl_run.n > rl_run.limit

(***************************************************************************)
(* Claims about the cache.  Every state of SpecCache after the first is    *)
(* the state right after the operation cache_last describes, which took    *)
(* place at the instant `now`.                                             *)
(***************************************************************************)
InMemoryGet ==
    /\ ENABLE_CACHE
    /\ ~use_redis
    /\ cache_last.op = "get"
    /\ cache_last.backing = "ok"

\* The set of the key of the last operation that last_set remembers.
RememberedSet == last_set[cache_last.key]

HasRememberedSet ==
    /\ cache_last.key \in DOMAIN last_set
    /\ RememberedSet # NoSet

\* C5: cache enabled, in-memory backing, positive ttl: a get of k at
\* the instant of set(k, v, ttl) returns v, and a get of k later than
\* that instant plus ttl, with no set of k in between, returns Miss.
C5_SetThenGet ==
    (InMemoryGet /\ HasRememberedSet) =>
        /\ (now = RememberedSet.at /\ ~RememberedSet.removed) =>
              /\ cache_last.outcome = "hit"
              /\ cache_last.value = RememberedSet.value
        /\ now > RememberedSet.at + RememberedSet.ttl * TicksPerSecond =>
              cache_last.outcome = "miss"

\* A get later than set instant + ttl that found the entry of that set
\* still stored, and missed.
C5_Witness ==
    /\ InMemoryGet
    /\ HasRememberedSet
    /\ ~RememberedSet.removed
    /\ now > RememberedSet.at + RememberedSet.ttl * TicksPerSecond
    /\ cache_last.prior = RememberedSet.at + RememberedSet.ttl * TicksPerSecond
    /\ cache_last.outcome = "miss"

\* C6: a get of the in-memory cache returns a value only from an
\* entry with now < expires_at, which it leaves stored; a get that finds an
\* entry whose expires_at is reached or passed returns Miss and removes it.
C6_NeverServedPastExpiry ==
    InMemoryGet =>
        /\ cache_last.outcome = "hit" =>
              /\ cache_last.prior # -1
              /\ now < cache_last.prior
              /\ cache_last.key \in DOMAIN cache
              /\ cache[cache_last.key].expires_at = cache_last.prior
              /\ cache[cache_last.key].value = cache_last.value
        /\ (cache_last.prior # -1 /\ now >= cache_last.prior) =>
              /\ cache_last.outcome = "miss"
              /\ cache_last.key \notin DOMAIN cache

\* A get at the very instant its entry expires.
C6_Witness ==
    /\ InMemoryGet
    /\ cache_last.prior = now
    /\ cache_last.outcome = "miss"
    /\ cache_last.key \notin DOMAIN cache

\* C9: with ENABLE_CACHE false, get returns Miss, set stores nothing,
\* and no operation (get, set, delete, clear) reads or modifies a backing
\* store.
C9_DisabledTouchesNoStore ==
    (~ENABLE_CACHE /\ cache_last.op # "none") =>
        /\ cache_last.op = "get" => cache_last.outcome = "miss"
        /\ cache = EmptyMap
        /\ redis = EmptyMap
        /\ cache_last.touched = {}

\* C10: an error raised by the backing store never reaches the caller:
\* get returns Miss, set, delete and clear return normally, and neither
\* store is changed by the operation.
C10_BackingErrorsAbsorbed ==
    [][cache_last'.backing = "error" =>
          /\ cache_last'.outcome =
                 (IF cache_last'.op = "get" THEN "miss" ELSE "returned")
          /\ cache' = cache
          /\ redis' = redis]_vars

\* The networked store failed on a get of a key it holds, unexpired.
C10_Witness ==
    /\ use_redis
    /\ cache_last.op = "get"
    /\ cache_last.backing = "error"
    /\ cache_last.outcome = "miss"
    /\ RedisGet(cache_last.key, now) # NoEntry

(***************************************************************************)
(* Claims about the retry executor.                                        *)
(***************************************************************************)
RECURSIVE Pow2(_)
Pow2(n) == IF n <= 0 THEN 1 ELSE 2 * Pow2(n - 1)

Invocations == Len(rt_outcomes)

Failures == AttemptOutcomes \ {"success"}

AllAttemptsHitQuota ==
    /\ Invocations >= 1
    /\ \A i \in 1 .. Invocations : rt_outcomes[i] = "ResourceExhausted"

\* C2: with max_retries N >= 1, an operation that fails with a quota
\* failure on every attempt is invoked exactly N times and the call ends
\* with a RateLimitError whose retry_after is the integer part of
\* initial_delay * 2^(N-1) capped at max_delay.
C2_QuotaExhaustionAfterNAttempts ==
    (rt_pc = "done" /\ rt_args.max_retries >= 1 /\ AllAttemptsHitQuota) =>
        /\ Invocations = rt_args.max_retries
        /\ rt_result.kind = "RateLimitError"
        /\ rt_result.retry_after =
               int_seconds(Min(rt_args.initial_delay * Pow2(rt_args.max_retries - 1),
                               rt_args.max_delay))

\* C3: if the k-th invocation (k <= max_retries) succeeds after k-1
\* failures of any kinds, the call returns the k-th invocation's result,
\* func is invoked k times and not again, and no error is raised; no error
\* is raised before max_retries invocations have failed.
C3_SuccessOnKthAttemptReturns ==
    /\ Invocations <= rt_args.max_retries
    /\ \A i \in 1 .. Invocations - 1 : rt_outcomes[i] \in Failures
    /\ (Invocations >= 1 /\ rt_outcomes[Invocations] = "success") =>
          /\ rt_pc = "done"
          /\ rt_result.kind = "returned"
          /\ rt_result.value = Invocations
          /\ rt_errors = << >>
    /\ (rt_errors # << >> /\ rt_args.max_retries >= 1) =>
          /\ Invocations = rt_args.max_retries
          /\ rt_outcomes[Invocations] \in Failures

\* The third invocation succeeded after two failures of different kinds.
C3_Witness ==
    /\ rt_pc = "done"
    /\ Invocations = 3
    /\ rt_outcomes[1] # rt_outcomes[2]
    /\ rt_outcomes[3] = "success"
    /\ rt_result.kind = "returned"
    /\ rt_result.value = 3

\* C4: for every max_retries >= 0 and every sequence of failures, a
\* call that does not return a result raises exactly one error, a
\* RateLimitError or a GeminiAPIError, never the operation's own exception.
C4_ExactlyOneTypedError ==
    /\ Len(rt_errors) <= 1
    /\ rt_pc = "done" =>
          IF rt_result.kind = "returned"
          THEN rt_errors = << >>
          ELSE /\ Len(rt_errors) = 1
               /\ rt_errors[1] = rt_result.kind
               /\ rt_result.kind \in {"RateLimitError", "GeminiAPIError"}
    /\ rt_pc # "done" => rt_errors = << >>

\* Every attempt failed and the last raised an exception that is no
\* GoogleAPIError: the caller got a GeminiAPIError with status 500.
C4_Witness ==
    /\ rt_pc = "done"
    /\ rt_args.max_retries = 3
    /\ Invocations = 3
    /\ rt_outcomes[3] = "Exception"
    /\ rt_errors = <<"GeminiAPIError">>
    /\ rt_result.status_code = 500

\* Every one of the max_retries >= 1 invocations of the call failed.
AllAttemptsFailed ==
    /\ rt_pc = "done"
    /\ rt_args.max_retries >= 1
    /\ Invocations = rt_args.max_retries
    /\ \A i \in 1 .. Invocations : rt_outcomes[i] \in Failures

\* C16: when all max_retries >= 1 attempts fail, the error depends only on
\* the kind of the final failure: quota gives a RateLimitError (429) raised
\* in the loop, a GoogleAPIError gives a GeminiAPIError 503 raised in the
\* loop and wrapping that failure, any other exception gives a
\* GeminiAPIError 500 raised after the loop and wrapping the final failure.
C16_ErrorDependsOnFinalFailure ==
    AllAttemptsFailed =>
        LET final == rt_outcomes[Invocations]
        IN  /\ final = "ResourceExhausted" =>
                  /\ rt_result.kind = "RateLimitError"
                  /\ rt_result.status_code = 429
                  /\ rt_result.site = "loop"
            /\ final = "GoogleAPIError" =>
                  /\ rt_result.kind = "GeminiAPIError"
                  /\ rt_result.status_code = 503
                  /\ rt_result.site = "loop"
                  /\ rt_result.cause = Invocations
            /\ final = "Exception" =>
                  /\ rt_result.kind = "GeminiAPIError"
                  /\ rt_result.status_code = 500
                  /\ rt_result.site = "after_loop"
                  /\ rt_result.cause = Invocations

\* Three failures, the first and the last unexpected: the error raised
\* after the loop wraps the third.
C16_Witness ==
    /\ AllAttemptsFailed
    /\ rt_outcomes = <<"Exception", "GoogleAPIError", "Exception">>
    /\ rt_result.status_code = 500
    /\ rt_result.cause = 3

\* C17: every backoff sleep lasts at most max_delay, and the retry_after
\* reported on quota exhaustion is at most max_delay.
C17_DelaysCappedAtMaxDelay ==
    /\ \A i \in 1 .. Len(rt_sleeps) : rt_sleeps[i] <= rt_args.max_delay
    /\ rt_pc = "sleeping" => rt_delay <= rt_args.max_delay
    /\ rt_result.kind = "RateLimitError" =>
          rt_result.retry_after * TicksPerSecond <= rt_args.max_delay

\* The steps of one invocation: a sleep is followed by an invocation of
\* func, an invocation by the end of the call or by a sleep, and after the
\* end func is not invoked again (the next step is a new call).
RetrySteps ==
    /\ rt_pc = "attempting" =>
          /\ rt_pc' \in {"done", "sleeping"}
          /\ Len(rt_outcomes') = Len(rt_outcomes) + 1
          /\ rt_sleeps' = rt_sleeps
    /\ rt_pc = "sleeping" =>
          /\ rt_pc' = "attempting"
          /\ rt_outcomes' = rt_outcomes
          /\ Len(rt_sleeps') = Len(rt_sleeps) + 1
    /\ rt_pc \in {"idle", "done"} =>
          /\ rt_outcomes' = << >>
          /\ rt_sleeps' = << >>

\* The sleeps completed so far, against the invocations made so far.
SleepsBetweenAttempts ==
    /\ rt_pc = "attempting" => Len(rt_sleeps) = Invocations
    /\ rt_pc = "sleeping" => Len(rt_sleeps) = Invocations - 1

\* C18 as stated: every invocation goes Idle -> Attempting, a sleep is
\* followed by another invocation of func, no sleep follows the final
\* attempt, an invocation with a attempts performs exactly a-1 sleeps, and
\* after a terminal state func is not invoked again.
C18_StateMachine ==
    /\ [][RetrySteps /\ (rt_pc \in {"idle", "done"} => rt_pc' = "attempting")]_vars
    /\ [](SleepsBetweenAttempts /\ (rt_pc = "done" => Len(rt_sleeps) = Invocations - 1))

\* C18, amended: the same for max_retries >= 1; a call with max_retries = 0
\* goes from Idle straight to the GeminiAPIError 500 raised after the
\* loop, with no invocation of func and no sleep.
C18_StateMachineFromOneAttempt ==
    /\ [][/\ RetrySteps
          /\ rt_pc \in {"idle", "done"} =>
                IF rt_args'.max_retries >= 1
                THEN rt_pc' = "attempting"
                ELSE rt_pc' = "done" /\ rt_result' = AfterLoop(NoException)]_vars
    /\ [](/\ SleepsBetweenAttempts
          /\ rt_pc = "done" =>
                IF rt_args.max_retries >= 1
                THEN Invocations >= 1 /\ Len(rt_sleeps) = Invocations - 1
                ELSE Invocations = 0 /\ rt_sleeps = << >>)

\* A call ended by a raise at its third attempt, after two sleeps.
C18_Witness ==
    /\ rt_pc = "done"
    /\ rt_result.site = "loop"
    /\ Invocations = 3
    /\ Len(rt_sleeps) = 2

\* The retry executor when every await completes: an invocation of func
\* that was started ends, and a sleep that was started ends.
SpecRetryLive ==
    /\ SpecRetry
    /\ WF_vars(\E outcome \in AttemptOutcomes :
                  retry_attempt(outcome) /\ UNCHANGED client_vars)
    /\ WF_vars(retry_wake /\ UNCHANGED client_vars)

\* C19: for every max_retries >= 0 and every sequence of outcomes, func is
\* invoked at most max_retries times, and a call whose invocations and
\* sleeps complete ends by returning a result or raising an error.
C19_BoundedAndTerminates ==
    /\ [](Invocations <= rt_args.max_retries)
    /\ (rt_pc \in {"attempting", "sleeping"}) ~> (rt_pc = "done")

\* A call that used all of its attempts, the last of which succeeded.
C19_Witness ==
    /\ rt_pc = "done"
    /\ rt_args.max_retries = MaxRetries
    /\ Invocations = MaxRetries
    /\ rt_result.kind = "returned"

(***************************************************************************)
(* Claims about the limiter's counters.                                    *)
(***************************************************************************)
\* The bucket has left the retention horizon at the instant current_time.
AgedOut(bucket, current_time) ==
    current_time - bucket * WindowTicks >= RetentionMinutes * WindowTicks

\* C13: from one state to the next the count stored for an (identifier,
\* bucket) pair never decreases; a count disappears only by the removal of
\* its bucket entry, which the purge of aged-out buckets performs.
C13_CountsNeverDecrease ==
    [][\A identifier \in DOMAIN request_counts :
          /\ identifier \in DOMAIN request_counts'
          /\ \A bucket \in DOMAIN request_counts[identifier] :
                IF bucket \in DOMAIN request_counts'[identifier]
                THEN request_counts'[identifier][bucket] >=
                         request_counts[identifier][bucket]
                ELSE AgedOut(bucket, now')]_vars

\* A check in minute 60 raised the count of its bucket from 1 to 2 and the
\* bucket of minute 0 is gone.
C13_Witness ==
    /\ rl_last.outcome = "admit"
    /\ rl_last.prior = 1
    /\ minute_window(now) = RetentionMinutes
    /\ DOMAIN CountsOf(rl_last.id) = {1, RetentionMinutes}
    /\ CountAfterLastCall = 2

\* C14: a check takes its identifier from the X-API-Key header when the
\* request carries a key and from the client address otherwise, and it
\* leaves the buckets and counts of every other identifier unchanged,
\* whether it admits or rejects.
C14_OnlyOwnCountersChange ==
    [][/\ rl_last'.id =
             IF rl_last'.request.api_key \in {NoKey, ""}
             THEN rl_last'.request.addr
             ELSE "api_key:" \o rl_last'.request.api_key
       /\ \A other \in (DOMAIN request_counts \cup DOMAIN request_counts') \ {rl_last'.id} :
             /\ other \in DOMAIN request_counts
             /\ other \in DOMAIN request_counts'
             /\ request_counts'[other] = request_counts[other]]_vars

\* A check keyed by the X-API-Key header was rejected while the client
\* address has counters of its own.
C14_Witness ==
    /\ rl_last.outcome = "RateLimitError"
    /\ rl_last.request.api_key = "k1"
    /\ rl_last.id = "api_key:k1"
    /\ \E other \in DOMAIN request_counts :
          other # rl_last.id /\ request_counts[other] # EmptyMap

\* C20: for every identifier and limit L (every check passing the same
\* per_minute), at most L requests are admitted in one minute bucket and
\* at most 2*L in any 60-second interval, which meets at most two
\* adjacent buckets.
C20_AdmissionsBounded ==
    (RATE_LIMIT_ENABLED /\ LastCallMade) =>
        \A identifier \in DOMAIN request_counts :
            \A bucket \in DOMAIN request_counts[identifier] :
                /\ request_counts[identifier][bucket] <= AskedLimit
                /\ request_counts[identifier][bucket] +
                       CountIn(request_counts[identifier], bucket + 1) <= 2 * AskedLimit

(***************************************************************************)
(* Claims about the cache keys and the text routes.                        *)
(***************************************************************************)
\* C11: _generate_key and _get_cache_key give, for the same arguments, the
\* same key in whatever order the named parameters are supplied, and the
\* same key on every call.
C11_KeyIndependentOfOrder ==
    (key_last.arguments = key_probe /\ key_ref # NoKeyRef) =>
        key_last.key = key_ref.key

\* The three named parameters were supplied in one order and then in
\* another, and the two keys agree.
C11_Witness ==
    /\ key_last.arguments = key_probe
    /\ key_ref # NoKeyRef
    /\ Len(key_last.order) = Cardinality(KwargNames)
    /\ key_last.order # key_ref.order
    /\ key_last.key = key_ref.key

\* C12: a request that ends in a RateLimitError, raised by the limiter's
\* check or by the retry executor on quota exhaustion, gets an HTTP 429
\* response whose Retry-After is the error's retry_after.
C12_RateLimitedGets429WithRetryAfter ==
    http_last.error = "RateLimitError" =>
        /\ http_last.status = 429
        /\ http_last.retry_after = Some(http_last.error_retry_after)

\* C15: TextService.generate returns a cached response only to a request
\* that is identical, in every parameter it forwards upstream, to the
\* request that produced the entry.
C15_CachedOnlyForIdenticalRequest ==
    tx_last.outcome = "cached" => tx_last.response = ResponseFor(tx_last.request)

(***************************************************************************)
(* Claims about the purge of the limiter's buckets.                        *)
(***************************************************************************)
\* The age of the bucket at the instant current_time, current_time / 60
\* minus the bucket id, exceeds the retention horizon.
OlderThanHorizon(bucket, current_time) ==
    current_time - bucket * WindowTicks > RetentionMinutes * WindowTicks

\* The step is an enabled check: what it leaves of the buckets its
\* identifier had, the buckets to remove being those older than the horizon
\* (strictly) or those that have reached it.
PurgeRemovesExactly(strictly) ==
    RATE_LIMIT_ENABLED =>
        LET identifier == rl_last'.id
            window     == minute_window(now')
            before     == CountsOf(identifier)
            after      == request_counts'[identifier]
            old(bucket) == IF strictly THEN OlderThanHorizon(bucket, now')
                                       ELSE AgedOut(bucket, now')
        IN  /\ identifier \in DOMAIN request_counts'
            /\ \A bucket \in DOMAIN before :
                  IF old(bucket)
                  THEN bucket \notin DOMAIN after
                  ELSE /\ bucket \in DOMAIN after
                       /\ after[bucket] =
                              IF bucket = window /\ rl_last'.outcome = "admit"
                              THEN before[bucket] + 1
                              ELSE before[bucket]
            /\ DOMAIN after \subseteq DOMAIN before \cup {window}

\* C21: every enabled check for an identifier at the instant t, admitted
\* or rejected, removes exactly the buckets of that identifier whose age
\* exceeds 60 minutes and keeps every other bucket of the identifier with
\* its count, the current bucket gaining one on admission.
C21_PurgesBucketsOlderThanHorizon ==
    [][PurgeRemovesExactly(TRUE)]_vars

\* The same with the buckets whose age has reached 60 minutes removed.
C21_PurgesBucketsAtHorizon ==
    [][PurgeRemovesExactly(FALSE)]_vars

\* The limiter under traffic that goes on: the clock advances from one
\* check to a later one as long as the model has a later instant, and the
\* identifier rl_probe keeps sending requests.  No other identifier has
\* to send again.
SpecLimiterLive ==
    /\ SpecLimiter
    /\ WF_vars(\E t \in LimiterInstants, request \in Requests,
                  per_minute \in PerMinuteArgs :
                  /\ t > now
                  /\ check_rate_limit(request, per_minute, t)
                  /\ UNCHANGED <<task_vars, client_vars>>)
    /\ WF_vars(\E t \in LimiterInstants, request \in Requests,
                  per_minute \in PerMinuteArgs :
                  /\ _get_identifier(request) = rl_probe
                  /\ check_rate_limit(request, per_minute, t)
                  /\ UNCHANGED <<task_vars, client_vars>>)

\* The entry of the bucket is stored for the identifier and is older than
\* the retention horizon.
StaleEntry(identifier, bucket) ==
    /\ bucket \in DOMAIN CountsOf(identifier)
    /\ OlderThanHorizon(bucket, now)

\* C22: as time advances, every bucket entry older than the 60-minute
\* retention horizon is eventually destroyed, the entries of identifiers
\* that send no further request included.
C22_StaleEntriesEventuallyDestroyed ==
    \A identifier \in Identifiers, bucket \in LimiterMinutes :
        StaleEntry(identifier, bucket) ~> ~StaleEntry(identifier, bucket)

\* The same for the entries of the identifier that keeps sending requests.
C22_StaleEntriesOfActiveIdentifierDestroyed ==
    \A bucket \in LimiterMinutes :
        StaleEntry(rl_probe, bucket) ~> ~StaleEntry(rl_probe, bucket)

(***************************************************************************)
(* Claims about the capacity sweep and the ttl of the cache.               *)
(***************************************************************************)
\* The step is a set that reached the in-process mapping.
InMemorySetStep ==
    /\ ENABLE_CACHE
    /\ ~use_redis
    /\ cache_last'.op = "set"
    /\ cache_last'.backing = "ok"

\* What a set leaves of the entries stored before it: over CACHE_MAX_SIZE
\* entries, the other keys' entries that are kept and no other; otherwise
\* every entry.  The entry of the set is stored in both cases.  Kept are
\* the entries a get at the instant of the set would serve (as_get), or
\* those whose expiry is not earlier than that instant.
SetSweeps(as_get) ==
    InMemorySetStep =>
        LET key    == cache_last'.key
            others == DOMAIN cache \ {key}
            kept(entry) == IF as_get THEN IsLive(entry, now')
                                     ELSE entry.expires_at >= now'
        IN  /\ key \in DOMAIN cache'
            /\ DOMAIN cache' \subseteq DOMAIN cache \cup {key}
            /\ \A k \in others :
                  /\ k \in DOMAIN cache' => cache'[k] = cache[k]
                  /\ k \in DOMAIN cache' <=>
                        \/ Cardinality(DOMAIN cache \cup {key}) <= CACHE_MAX_SIZE
                        \/ kept(cache[k])

\* C23: a set on the in-memory cache that leaves more than CACHE_MAX_SIZE
\* entries removes every entry a get at the same instant would treat as
\* expired and no entry that is still live, so that a cache of live entries
\* stays over its size; a set that leaves at most CACHE_MAX_SIZE entries
\* removes nothing.
C23_SweepRemovesWhatGetTreatsAsExpired ==
    [][SetSweeps(TRUE)]_vars

\* The same with the entries whose expiry is the instant of the set kept.
C23_SweepRemovesEntriesPastExpiry ==
    [][SetSweeps(FALSE)]_vars

\* The ttl in seconds that the caller of set(k, v, ttl) asks for.
AskedTtl(ttl) == IF ttl = None THEN CACHE_TTL_SECONDS ELSE ttl[1]

\* C24: set(k, v, ttl) stores the entry with expires_at = now + ttl for
\* every ttl the caller passes (ttl = 0 included, whose entry no later get
\* serves), and with now + CACHE_TTL_SECONDS only when no ttl is passed.
C24_ExplicitTtlIsUsed ==
    [][\A key \in CacheKeys, value \in CacheValues, ttl \in TtlArgs, t \in CacheInstants :
          (ENABLE_CACHE /\ cache_set(key, value, ttl, "ok", t)) =>
              LET store == IF use_redis THEN redis' ELSE cache'
              IN  /\ key \in DOMAIN store
                  /\ store[key].expires_at = t + AskedTtl(ttl) * TicksPerSecond
                  /\ ttl = Some(0) =>
                        \A later \in CacheInstants :
                            later >= t => ~IsLive(store[key], later)]_vars

(***************************************************************************)
(* Claims about concurrent requests.                                       *)
(***************************************************************************)
\* The step is a step of the task.
StepOf(task) == tasks'[task] # tasks[task]

\* The step is the lookup of the task's request.
LookupOf(task) == tasks[task].pc = "admitted" /\ StepOf(task)

\* The step ends the task's request with the response of the upstream.
GeneratedBy(task) == StepOf(task) /\ tasks'[task].outcome = "generated"

\* The lookup returns the value of a fresh entry under the request's key,
\* without a call of the upstream and without a change of the cache; any
\* other lookup goes on to the upstream call.
HitServedFromCache(task) ==
    LookupOf(task) =>
        LET key == tasks'[task].key
        IN  IF key \in DOMAIN cache /\ IsLive(cache[key], now')
            THEN /\ tasks'[task].pc = "done"
                 /\ tasks'[task].outcome = "cached"
                 /\ tasks'[task].response = cache[key].value
                 /\ tasks'[task].calls = 0
                 /\ cache' = cache
            ELSE /\ tasks'[task].pc = "upstream"
                 /\ tasks'[task].calls = 1

\* An entry is stored only by the step that ends a request with the
\* response of the upstream, under the request's key and with that response.
StoredOnlyOnSuccess(task) ==
    /\ GeneratedBy(task) =>
          /\ tasks[task].pc = "upstream"
          /\ tasks'[task].key \in DOMAIN cache'
          /\ cache'[tasks'[task].key].value = tasks'[task].response
          /\ \A key \in DOMAIN cache' \ {tasks'[task].key} :
                key \in DOMAIN cache /\ cache'[key] = cache[key]
    /\ (StepOf(task) /\ ~GeneratedBy(task)) =>
          \A key \in DOMAIN cache' : key \in DOMAIN cache /\ cache'[key] = cache[key]

\* C25 as stated: an entry is created only on a miss followed by a
\* successful upstream call, a request whose upstream call ends in an error
\* leaves the cache exactly as it was, and a fresh hit is returned without
\* a call of the upstream.
C25_CacheUntouchedOnError ==
    /\ [][\A task \in Tasks :
             /\ HitServedFromCache(task)
             /\ StoredOnlyOnSuccess(task)
             /\ (StepOf(task) /\ ~LookupOf(task) /\ ~GeneratedBy(task)) =>
                   cache' = cache]_vars
    /\ [](\A task \in Tasks :
             (tasks[task].outcome = "error" /\ ~tasks[task].cancelled) =>
                 ~tasks[task].swept)

\* C25, amended: the same, except that the lookup of a request removes the
\* expired entry it finds under the request's key, whatever the outcome of
\* the upstream call; a request that ends in an error changes the cache in
\* no other way.
C25_NothingStoredOnError ==
    [][\A task \in Tasks :
          /\ HitServedFromCache(task)
          /\ StoredOnlyOnSuccess(task)
          /\ (StepOf(task) /\ ~LookupOf(task) /\ ~GeneratedBy(task)) => cache' = cache
          /\ LookupOf(task) =>
                LET key == tasks'[task].key
                IN  /\ tasks'[task].swept <=>
                          (key \in DOMAIN cache /\ ~IsLive(cache[key], now'))
                    /\ cache' = IF tasks'[task].swept
                                THEN Without(cache, {key}) ELSE cache]_vars

\* A request whose lookup removed an expired entry and whose upstream call
\* failed on every attempt, while the other task was served from the cache.
C25_Witness ==
    \E task, other \in Tasks :
        /\ tasks[task].outcome = "error"
        /\ tasks[task].swept
        /\ tasks[task].calls = DefaultMaxRetries
        /\ tasks[other].outcome = "cached"
        /\ tasks[other].calls = 0

\* Both tasks have ended a request for the same key with the response of
\* the upstream.
BothGenerated(a, b) ==
    /\ a # b
    /\ tasks[a].outcome = "generated"
    /\ tasks[b].outcome = "generated"
    /\ tasks[a].key = tasks[b].key

\* C26: two requests with the same cache key can both miss and both call
\* the upstream, the miss and the write being separated by the await of the
\* upstream call; once both are complete the cache holds one entry for the
\* key, whose value is the whole response of one of the two.
C26_RacingMissesLeaveOneWholeEntry ==
    \A a, b \in Tasks :
        BothGenerated(a, b) =>
            /\ tasks[a].key \in DOMAIN cache
            /\ cache[tasks[a].key].value \in {tasks[a].response, tasks[b].response}

\* Two requests with the same key and different responses both called the
\* upstream and were both answered at the first instant, where a stored
\* entry is fresh: each missed before the other stored.
C26_Witness ==
    \E a, b \in Tasks :
        /\ BothGenerated(a, b)
        /\ now = 0
        /\ tasks[a].calls >= 1
        /\ tasks[b].calls >= 1
        /\ tasks[a].response # tasks[b].response
        /\ cache[tasks[a].key].value = tasks[b].response

\* C27: with tasks that suspend only at the upstream call and the backoff
\* sleep, check_rate_limit reads and writes the count of a bucket in one
\* step, so that no update is lost: for every identifier and bucket the
\* stored count is the number of the requests admitted in that bucket, and
\* it never exceeds the limit.
C27_NoLostCounterUpdate ==
    /\ \A identifier \in DOMAIN request_counts :
          \A bucket \in DOMAIN request_counts[identifier] :
              /\ request_counts[identifier][bucket] = Admitted(identifier, bucket)
              /\ request_counts[identifier][bucket] <= RATE_LIMIT_PER_MINUTE
    /\ \A pair \in DOMAIN admitted :
          /\ pair[1] \in DOMAIN request_counts
          /\ pair[2] \in DOMAIN request_counts[pair[1]]

\* One task is suspended in its upstream call, admitted in a bucket that
\* has since reached the limit, and the check of the other task's request
\* for the same identifier was rejected.
C27_Witness ==
    \E task, other \in Tasks :
        /\ tasks[task].pc \in {"upstream", "sleeping"}
        /\ tasks[other].error = "RateLimitError"
        /\ tasks[other].calls = 0
        /\ rl_last.outcome = "RateLimitError"
        /\ request_counts[rl_last.id][minute_window(now)] = RATE_LIMIT_PER_MINUTE
        /\ Admitted(rl_last.id, minute_window(now)) = RATE_LIMIT_PER_MINUTE

\* C28: a request cancelled while it is suspended in the upstream call or
\* in the backoff sleep is abandoned: the cancellation is not made into a
\* retry or a typed error and no further attempt is made, no cache entry is
\* written for the request, and the counters of the limiter stay as they
\* were.
C28_CancelledRequestIsAbandoned ==
    /\ [](\A task \in Tasks :
             tasks[task].cancelled =>
                 /\ tasks[task].pc = "done"
                 /\ tasks[task].outcome = "error"
                 /\ tasks[task].error = "CancelledError")
    /\ [][\A task \in Tasks :
             (StepOf(task) /\ tasks'[task].cancelled) =>
                 /\ tasks[task].pc \in {"upstream", "sleeping"}
                 /\ tasks'[task].calls = tasks[task].calls
                 /\ cache' = cache
                 /\ request_counts' = request_counts
                 /\ admitted' = admitted]_vars

\* One request was cancelled after its second call of the upstream had
\* started and the other after its first; nothing is stored.
C28_Witness ==
    \E task, other \in Tasks :
        /\ tasks[task].cancelled
        /\ tasks[task].calls = 2
        /\ tasks[task].attempt = 1
        /\ tasks[other].cancelled
        /\ tasks[other].calls = 1
        /\ tasks[other].attempt = 0
        /\ cache = EmptyMap

(***************************************************************************)
(* Claims about the errors the client methods give their callers.          *)
(***************************************************************************)
\* The method has returned or raised to its caller.
MethodEnded == cl_method \in ClientMethods /\ cl_result # NoResult

\* C29: when the retry executor ends in a RateLimitError inside
\* generate_text, analyze_image, analyze_video or process_multimodal, the
\* caller of the method gets a RateLimitError with the status 429 and the
\* executor's retry_after.
C29_RateLimitErrorReachesCaller ==
    (MethodEnded /\ rt_result.kind = "RateLimitError") =>
        /\ cl_result.kind = "RateLimitError"
        /\ cl_result.status_code = 429
        /\ cl_result.retry_after = rt_result.retry_after

\* The same for generate_text alone.
C29_RateLimitErrorReachesCallerOfGenerateText ==
    (MethodEnded /\ cl_method = "generate_text" /\ rt_result.kind = "RateLimitError") =>
        /\ cl_result.kind = "RateLimitError"
        /\ cl_result.status_code = 429
        /\ cl_result.retry_after = rt_result.retry_after

\* C30: a ModelNotFoundError raised by _get_model during generate_text is
\* terminal: the operation is not invoked again and no backoff sleep
\* follows, and the caller of generate_text gets the ModelNotFoundError
\* (status 404).
C30_ModelNotFoundIsTerminal ==
    cl_method = "generate_text" =>
        \A i \in 1 .. Invocations :
            rt_outcomes[i] = "ModelNotFoundError" =>
                /\ i = Invocations
                /\ rt_pc = "done"
                /\ Len(rt_sleeps) = i - 1
                /\ MethodEnded =>
                      /\ cl_result.kind = "ModelNotFoundError"
                      /\ cl_result.status_code = 404

====
